---- MODULE Spec2Model ----
(***************************************************************************)
(* A model of libirc/irc.c (circ): the line reader, the connection         *)
(* registry with connect/quit, and the per-connection reactor loop with    *)
(* its two message queues.                                                 *)
(***************************************************************************)
EXTENDS Integers, Sequences, FiniteSets, TLC

(***************************************************************************)
(* Bounds of the model.                                                    *)
(***************************************************************************)
\* irc.c:24 sets IRC_MESSAGE_SIZE to 8192; the model scales the buffer down.
IRC_MESSAGE_SIZE == 4
\* Length of the byte stream the peer has sent to the line reader.
MaxInput == 5
\* Calls of irc_loop_read_callback in one behaviour of the line reader.
MaxReads == 2

\* irc.c:88 sets MAX_CONNECTIONS to 10; the model scales the registry down.
MAX_CONNECTIONS == 2
\* Heap chunks malloc can hand out for irc_connection objects.
NumAddr == 2
\* Outbound lines enqueued in one behaviour by the thread outside the reactor
\* and by the handlers together (the QUIT line of quit aside).
MaxPush == 2
\* Lines the reactor of the one-connection model reads from the socket.
MaxIn == 2
\* Lines each reactor of the two-connection model reads from its socket.
MaxServe == 2
\* Inbound lines read and outbound lines enqueued in one behaviour, together.
MaxEvents == 3
\* Calls of send that fail on the open socket in one behaviour.
MaxSendFail == 1

(***************************************************************************)
(* Bytes.  "a" stands for every byte that is neither '\r', '\n' nor '\0'.  *)
(***************************************************************************)
CR == "CR"
LF == "LF"
NUL == "NUL"
WireByte == {CR, LF, "a"}
\* What the two bytes in front of a malloc'ed buffer may hold (read by the
\* loop condition of irc_read_message at i = 0 and i = 1).
HeaderByte == {NUL, CR, LF}

\* The null pointer; heap addresses are 1..NumAddr.
NULL == 0

VARIABLES
  net,      \* bytes sent by the peer and not yet received from the socket
  reads,    \* one record per finished irc_loop_read_callback
  conns,    \* the registry: the static array conns[MAX_CONNECTIONS + 1]
  heap,     \* the irc_connection chunks of the heap, by address
  process,  \* "running", "exited" (exit/err), "hung" or "crashed"
  last,     \* the latest call of the connect/quit interface and its outcome
  running,     \* conn->ev_is_running
  read_queue,  \* conn->read_queue: the inbound lines, head first
  write_queue, \* conn->write_queue: the outbound nodes, head first
  rmtx,        \* owner of conn->read_queue_mtx
  wmtx,        \* owner of conn->write_queue_mtx
  rpc,         \* where the reactor's thread stands in irc_do_event_loop
  peek,        \* str and next of irc_process_write_message_queue
  hookLeft,    \* the exec_hooks calls handle_message has yet to make
  tpc,         \* where each other thread stands in irc_push_string / quit
  tline,       \* the line each other thread is enqueueing
  npush,       \* lines each other thread has started to enqueue
  nhook,       \* lines handlers have enqueued
  nread,       \* lines the read callback has read
  wire,        \* log of the socket: the sends, in order, and the close
  handled,     \* the lines handed to handle_message, in order
  dispatched,  \* the exec_hooks calls, in order: line number and key
  timer,       \* conn->timer: "unset", "armed", "fired" or "stopped"
  watcher,     \* conn->watcher: "unset", "active" or "stopped"
  quitAt,      \* where the reactor stood when quit was called ("none": never)
  arrived,     \* the lines the read callback has read from the socket, in order
  snap,        \* the lines that were in the outbound queue when its drain began
  ev_default,     \* the default event loop (EV_DEFAULT): "none", "alive", "destroyed"
  ev_is_running,  \* by connection: conn->ev_is_running
  handles,        \* by connection: conn->watcher and conn->timer
  lpc,            \* by connection: where its irc_do_event_loop stands
  served,         \* by connection: lines its reactor has read and handed on
  gnutls_global   \* the library-wide state of GnuTLS: "up" or "down"

readVars == <<net, reads>>
regVars == <<conns, heap, process, last, gnutls_global>>
loopVars ==
  <<running, read_queue, write_queue, rmtx, wmtx, rpc, peek, hookLeft, tpc,
    tline, npush, nhook, nread, wire, handled, dispatched, timer, watcher,
    quitAt, arrived,
    snap>>
pairVars == <<ev_default, ev_is_running, handles, lpc, served>>
vars == <<readVars, regVars, loopVars, pairVars>>

(***************************************************************************)
(* irc_read_message (irc.c:299-319).                                       *)
(***************************************************************************)
Max(a, b) == IF a >= b THEN a ELSE b

\* A buffer after malloc + memset 0 (irc.c:214-215).
ZeroBuf == [j \in 0..(IRC_MESSAGE_SIZE - 1) |-> NUL]

\* buf[j], where j = -2 and j = -1 lie in front of the allocation.
ByteAt(buf, pre, j) == IF j = -2 THEN pre[1] ELSE IF j = -1 THEN pre[2] ELSE buf[j]

\* The loop condition with the size test off by one.
ReadLoopCondOffByOne(buf, pre, i) ==
  /\ ByteAt(buf, pre, i - 2) # CR
  /\ ByteAt(buf, pre, i - 1) # LF
  /\ i < IRC_MESSAGE_SIZE

\* The loop condition of irc.c:310.
ReadLoopCond(buf, pre, i) ==
  /\ ByteAt(buf, pre, i - 2) # CR
  /\ ByteAt(buf, pre, i - 1) # LF
  /\ i < IRC_MESSAGE_SIZE - 1

\* The for loop of irc.c:309-313 followed by the two NUL stores of 315-316.
\* irc_read_bytes stores one byte when the transport has one, and stores
\* nothing when recv returns 0 or -1 (its result n is ignored).
\* hi is the highest index written so far (-1: none), top the highest index
\* at which a byte other than NUL was stored.
RECURSIVE ReadLoop(_, _, _, _, _, _)
ReadLoop(i, buf, in, pre, hi, top) ==
  IF ReadLoopCond(buf, pre, i)
  THEN IF in # <<>>
       THEN ReadLoop(i + 1, [buf EXCEPT ![i] = Head(in)], Tail(in), pre,
                     Max(hi, i), Max(top, i))
       ELSE ReadLoop(i + 1, buf, in, pre, hi, top)
  ELSE [ret  |-> i,
        buf  |-> [[buf EXCEPT ![i] = NUL] EXCEPT ![IRC_MESSAGE_SIZE - 1] = NUL],
        rest |-> in,
        hi   |-> Max(Max(hi, i), IRC_MESSAGE_SIZE - 1),
        top  |-> top]

\* c is the result of get_irc_server_connection (s) (irc.c:305-307).
irc_read_message(c, pre, in) ==
  IF c = NULL
  THEN [ret |-> -1, buf |-> ZeroBuf, rest |-> in, hi |-> -1, top |-> -1]
  ELSE ReadLoop(0, ZeroBuf, in, pre, -1, -1)

\* strlen of a buffer: the index of its first NUL (the buffer's size if none).
RECURSIVE StrlenFrom(_, _)
StrlenFrom(buf, j) ==
  IF j >= IRC_MESSAGE_SIZE \/ buf[j] = NUL THEN j ELSE StrlenFrom(buf, j + 1)
strlen(buf) == StrlenFrom(buf, 0)

\* The C string held by a buffer.
CString(buf) == [k \in 1..strlen(buf) |-> buf[k - 1]]

(***************************************************************************)
(* The line reader on its own: the peer has sent a byte stream, and the    *)
(* read callback (irc.c:210-236) frames it with irc_read_message, each     *)
(* call into a fresh buffer.                                               *)
(***************************************************************************)
ByteStreams == UNION {[1..n -> WireByte] : n \in 0..MaxInput}


\* irc_loop_read_callback: libev calls it when the socket is readable.  The
\* record keeps what the call was given and what irc_read_message returned.
irc_loop_read_callback ==
  /\ net # <<>>
  /\ Len(reads) < MaxReads
  /\ \E pre \in HeaderByte \X HeaderByte :
       LET r == irc_read_message(1, pre, net) IN
         /\ reads' = Append(reads, [in |-> net, pre |-> pre, ret |-> r.ret,
                                    buf |-> r.buf, hi |-> r.hi, top |-> r.top])
         /\ net' = r.rest
  /\ UNCHANGED <<regVars, loopVars, pairVars>>

NextRead == irc_loop_read_callback

(***************************************************************************)
(* The connection registry and the connection lifecycle.                   *)
(***************************************************************************)
Addr == 1..NumAddr

\* The servers, told apart by pointer identity; s2 has secure set.
Servers == {"s1", "s2", "s3"}
secure(s) == s = "s2"

\* A chunk that never held a connection.
NoChunk == [live |-> FALSE, server |-> "none", socket |-> "none", tls |-> "none"]

\* The record of a call that has not been made.
NoCall ==
  [op |-> "none", server |-> "none", ret |-> "none", why |-> "none",
   fault |-> "none", handshake |-> "none", held |-> 0, wasLive |-> FALSE,
   sockets |-> 0, steps |-> <<>>, conn |-> NULL]

\* Static storage is zero-initialised: every slot of conns is NULL.
NoConns == [i \in 0..MAX_CONNECTIONS |-> NULL]
NoHeap == [a \in Addr |-> NoChunk]

\* The watcher and the timer of a connection before ev_io_init / ev_timer_init.
NoHandles == [watcher |-> "unset", timer |-> "unset"]

\* The number of registry slots in use.
Held == Cardinality({i \in 0..MAX_CONNECTIONS : conns[i] # NULL})

\* s has a live connection in the registry.
LiveRegistered(s) ==
  \E i \in 0..MAX_CONNECTIONS :
    conns[i] # NULL /\ heap[conns[i]].live /\ heap[conns[i]].server = s

\* get_irc_server_connection (irc.c:538-548): the loop over conns from slot i
\* on, as the set of results it can return.  A slot that points to a freed
\* chunk is read after free: the server field still holds the old pointer or
\* has been overwritten by the allocator, so the comparison may go either way.
RECURSIVE LookupFrom(_, _)
LookupFrom(i, s) ==
  IF i > MAX_CONNECTIONS \/ conns[i] = NULL
  THEN {NULL}
  ELSE LET c == conns[i] IN
         IF heap[c].live
         THEN IF heap[c].server = s THEN {c} ELSE LookupFrom(i + 1, s)
         ELSE (IF heap[c].server = s THEN {c} ELSE {}) \cup LookupFrom(i + 1, s)

get_irc_server_connection(s) == LookupFrom(0, s)

\* server_connected (irc.c:581-585), for one result c of the lookup.
server_connected(c) == c # NULL

\* The cap test reading the sentinel slot instead of the last usable one.
connections_cap_reached_sentinel == conns[MAX_CONNECTIONS] # NULL

\* connections_cap_reached (irc.c:588-592).
connections_cap_reached == conns[MAX_CONNECTIONS - 1] # NULL

\* make_irc_connection_entry (irc.c:520-532): the registry after storing c in
\* the first NULL slot below MAX_CONNECTIONS (unchanged when there is none;
\* the caller ignores the -1).
make_irc_connection_entry(c) ==
  LET free == {i \in 0..(MAX_CONNECTIONS - 1) : conns[i] = NULL} IN
    IF free = {}
    THEN conns
    ELSE [conns EXCEPT ![CHOOSE i \in free : \A j \in free : i <= j] = c]

\* create_irc_connection (irc.c:502-517): tls_session and tls_creds are left
\* uninitialised.
create_irc_connection(s, sock) ==
  [live |-> TRUE, server |-> s, socket |-> sock, tls |-> "uninit"]

\* What can go wrong in one connect attempt (at most one fault per attempt).
Faults ==
  {"none", "getaddrinfo", "socket", "connect", "malloc", "fcntl",
   "select_error", "select_timeout", "getsockopt", "fd_not_set"}

\* irc_create_socket (irc.c:407-445): exit when resolution fails; a socket()
\* failure repeats the loop with the same candidate for as long as it fails;
\* when connect fails on every candidate the function returns the last
\* descriptor, already closed, not -1.
irc_create_socket(f) ==
  CASE f = "getaddrinfo" -> "exit"
    [] f = "socket"      -> "hang"
    [] f = "connect"     -> "closed"
    [] OTHER             -> "open"

\* setnonblock (irc.c:92-100): fcntl fails on a closed descriptor.
setnonblock(sock, f) == IF sock = "closed" \/ f = "fcntl" THEN "-1" ELSE "0"

\* verify_socket (irc.c:103-138): every failure exits the process.
verify_socket(f) ==
  IF f \in {"select_error", "select_timeout", "getsockopt", "fd_not_set"}
  THEN "exit" ELSE "0"

\* encrypt_irc_connection (irc.c:473-499): the handshake loop ends on success
\* or on a terminal error, and the function returns nothing either way.
encrypt_irc_connection(chunk, hs) ==
  [chunk EXCEPT !.tls = IF hs = "ok" THEN "session" ELSE "failed"]

\* setup_irc_connection (irc.c:448-470) with the connection at address a:
\* its result ("0", "1", or "exit" for exit (EXIT_FAILURE)), the steps it
\* took, and the registry and heap it leaves.
setup_irc_connection(s, sock, a, f, hs) ==
  IF f = "malloc"
  THEN [ret |-> "1", steps |-> <<>>, conns |-> conns, heap |-> heap]
  ELSE
    LET c0 == create_irc_connection(s, sock)
        c1 == IF secure(s) THEN encrypt_irc_connection(c0, hs) ELSE c0
        nb == setnonblock(c1.socket, f)
        vs == verify_socket(f)
    IN [ret   |-> IF nb = "-1" \/ vs = "exit" THEN "exit" ELSE "0",
        steps |-> <<"register">>
                  \o (IF secure(s) THEN <<"handshake">> ELSE <<>>)
                  \o <<"nonblock">>
                  \o (IF nb = "-1" THEN <<>> ELSE <<"verify">>),
        conns |-> make_irc_connection_entry(a),
        heap  |-> [heap EXCEPT ![a] = c1]]

\* irc_server_connect (irc.c:144-175).
irc_server_connect(s) ==
  /\ process = "running"
  /\ UNCHANGED <<readVars, loopVars, pairVars, gnutls_global>>
  /\ \E c \in get_irc_server_connection(s), f \in Faults,
        hs \in (IF secure(s) THEN {"ok", "failed"} ELSE {"none"}) :
       LET call == [NoCall EXCEPT !.op = "connect", !.server = s,
                                  !.held = Held, !.wasLive = LiveRegistered(s)]
       IN
       IF server_connected(c)
       THEN /\ last' = [call EXCEPT !.ret = "-1", !.why = "already"]
            /\ UNCHANGED <<conns, heap, process>>
       ELSE IF connections_cap_reached
       THEN /\ last' = [call EXCEPT !.ret = "-1", !.why = "full"]
            /\ UNCHANGED <<conns, heap, process>>
       ELSE
         LET sock == irc_create_socket(f)
             tried == [call EXCEPT !.fault = f, !.sockets = 1,
                                   !.steps = <<"socket">>]
         IN
         IF sock \in {"exit", "hang"}
         THEN /\ process' = (IF sock = "exit" THEN "exited" ELSE "hung")
              /\ last' = [tried EXCEPT !.why = "create_socket"]
              /\ UNCHANGED <<conns, heap>>
         ELSE \E a \in {x \in Addr : ~heap[x].live} :
           LET r == setup_irc_connection(s, sock, a, f, hs)
               done == [tried EXCEPT !.steps = <<"socket">> \o r.steps,
                                     !.handshake = hs, !.conn = a]
           IN
           /\ conns' = r.conns
           /\ heap' = r.heap
           /\ IF r.ret = "0"
              THEN /\ last' = [done EXCEPT !.ret = "0", !.why = "connected"]
                   /\ UNCHANGED process
              ELSE /\ last' = [done EXCEPT !.why = "setup"]
                   /\ process' = "exited"

\* quit_irc_connection (irc.c:563-578) called where no reactor is running.
\* With no connection found, irc_push_string locks a mutex through a null
\* pointer.  With a freed connection found, every statement uses freed
\* memory and free is called a second time: the call crashes or goes
\* unnoticed.  gnutls_deinit on a connection that never ran
\* encrypt_irc_connection is handed an uninitialised session: it crashes or
\* returns.  gnutls_global_deinit (irc.c:575) is called with no
\* gnutls_global_init to match it: it takes the library-wide state down.
\* The slot of conns is left as it is.
quit_irc_connection(s) ==
  /\ process = "running"
  /\ UNCHANGED <<readVars, loopVars, pairVars>>
  /\ \E c \in get_irc_server_connection(s) :
       LET call == [NoCall EXCEPT !.op = "quit", !.server = s, !.held = Held,
                                  !.wasLive = LiveRegistered(s), !.conn = c]
       IN
       IF c = NULL
       THEN /\ process' = "crashed"
            /\ last' = [call EXCEPT !.why = "null"]
            /\ UNCHANGED <<conns, heap, gnutls_global>>
       ELSE IF ~heap[c].live
       THEN /\ \/ /\ process' = "crashed"
                  /\ last' = [call EXCEPT !.why = "freed"]
                  /\ UNCHANGED gnutls_global
               \/ /\ UNCHANGED process
                  /\ last' = [call EXCEPT !.ret = "void", !.why = "freed"]
                  /\ gnutls_global' = "down"
            /\ UNCHANGED <<conns, heap>>
       ELSE
         \/ /\ heap[c].tls = "uninit"
            /\ process' = "crashed"
            /\ last' = [call EXCEPT !.why = "deinit"]
            /\ UNCHANGED <<conns, heap, gnutls_global>>
         \/ /\ heap' = [heap EXCEPT ![c].live = FALSE, ![c].socket = "closed",
                                    ![c].tls = "released"]
            /\ gnutls_global' = "down"
            /\ last' = [call EXCEPT !.ret = "void", !.why = "quit"]
            /\ UNCHANGED <<conns, process>>

(***************************************************************************)
(* The reactor of one connection: irc_do_event_loop on the connection of   *)
(* server Srv (the chunk at address Conn, registered in conns[0]), threads *)
(* outside the reactor that enqueue outbound lines or call quit, and the   *)
(* handlers exec_hooks runs, which may enqueue or quit as well.            *)
(***************************************************************************)
Conn == 1
Srv == "s1"
\* The threads outside the reactor's.
Threads == {"t1"}
Reactor == "reactor"
NoOwner == "none"

\* Outbound lines are told apart by who enqueued them and as which of their
\* lines; line 0 of a caller is the QUIT line quit_irc_connection enqueues.
Line(by, k) == [by |-> by, k |-> k]
IsQuit(l) == l.k = 0 /\ l.by \in Threads \cup {"hook"}
\* What an uninitialised message pointer makes of a line.
Garbage == [by |-> "garbage", k |-> 0]
\* The mark of close (conn->socket) in the log of the socket.
Closed == [by |-> "close", k |-> 0]

\* The nodes of a queue: a node is linked before its fields are set.
Node(l) == [line |-> l, st |-> "full"]

\* The locals str and next of irc_process_write_message_queue; next is NULL,
\* a node, or what an uninitialised next field holds.
NoPeek == [str |-> Garbage, next |-> "null"]

\* Inbound lines: the empty line, a line ircmsg_parse rejects, a line it
\* parses with command PING.
InLines == {"", "garbage", "PING"}
ircmsg_parse(line) == IF line = "PING" THEN 1 ELSE 0
Command(line) == line

\* The handler ignores a failed parse (ret == 0) and dispatches once only.
hooks_for_once(line) ==
  IF line = ""
  THEN <<>>
  ELSE IF ircmsg_parse(line) = 0 THEN <<>> ELSE <<Command(line)>>

\* handle_message (irc.c:278-296): the keys it hands to exec_hooks, in order.
hooks_for(line) ==
  IF line = ""
  THEN <<>>
  ELSE IF ircmsg_parse(line) = 0 THEN <<>> ELSE <<Command(line), "*">>

\* The calls of send that have failed on the open socket so far.
SendFailures == Cardinality({i \in 1..Len(wire) : wire[i].res = "failed"})

\* The lines enqueued so far through irc_push_string, QUIT lines aside.
Pushed == npush["t1"] + nhook

\* What the environment has done so far: the inbound lines read, the
\* outbound lines enqueued, the calls of send that failed.
Events == nread + Pushed + SendFailures

\* irc_write_bytes (irc.c:382-404): the log entries a call can produce.  With
\* no connection found it returns -1 and sends nothing; otherwise it calls
\* send on conn->socket, which fails once the descriptor is closed and may
\* fail on the open, non-blocking socket (EAGAIN, EPIPE, ECONNRESET).
irc_write_bytes(str) ==
  {[line |-> str,
    res  |-> IF c = NULL THEN "noconn"
             ELSE IF heap[c].socket = "open" THEN "sent" ELSE "ebadf"] :
     c \in get_irc_server_connection(Srv)}
  \cup {[line |-> str, res |-> "failed"] :
         c \in {x \in get_irc_server_connection(Srv) :
                  /\ x # NULL
                  /\ heap[x].socket = "open"
                  /\ SendFailures < MaxSendFail
                  /\ Events < MaxEvents}}

\* The tail of quit_irc_connection (irc.c:572-577) on the heap: the TLS
\* state is released, the socket closed, the chunk freed.
FreeConnection(c) ==
  [heap EXCEPT ![c] = [@ EXCEPT !.live = FALSE, !.socket = "closed",
                                !.tls = "released"]]

\* Some caller is inside quit_irc_connection or has completed it.
QuitCalled == quitAt # "none"

\* Connect has returned 0 for Srv and irc_do_event_loop is about to be called.
Init ==
  /\ net = <<>>
  /\ reads = <<>>
  /\ conns = [NoConns EXCEPT ![0] = Conn]
  /\ heap = [NoHeap EXCEPT ![Conn] = create_irc_connection(Srv, "open")]
  /\ process = "running"
  /\ last = NoCall
  /\ gnutls_global = "up"
  /\ running = FALSE
  /\ read_queue = <<>>
  /\ write_queue = <<>>
  /\ rmtx = NoOwner
  /\ wmtx = NoOwner
  /\ rpc = "init"
  /\ peek = NoPeek
  /\ hookLeft = <<>>
  /\ tpc = [t \in Threads |-> "idle"]
  /\ tline = [t \in Threads |-> Garbage]
  /\ npush = [t \in Threads |-> 0]
  /\ nhook = 0
  /\ nread = 0
  /\ wire = <<>>
  /\ handled = <<>>
  /\ arrived = <<>>
  /\ snap = {}
  /\ ev_default = "none"
  /\ ev_is_running = [a \in Addr |-> FALSE]
  /\ handles = [a \in Addr |-> NoHandles]
  /\ lpc = [a \in Addr |-> "idle"]
  /\ served = [a \in Addr |-> 0]
  /\ dispatched = <<>>
  /\ timer = "unset"
  /\ watcher = "unset"
  /\ quitAt = "none"

(***************************************************************************)
(* irc_do_event_loop (irc.c:178-207).                                      *)
(***************************************************************************)
\* irc.c:181-195: look the connection up, set the running flag, start the
\* watcher and the one-shot timer.
Loop_Init ==
  /\ process = "running"
  /\ rpc = "init"
  /\ \E c \in get_irc_server_connection(Srv) :
       IF c = NULL
       THEN /\ process' = "crashed"
            /\ UNCHANGED <<net, reads, conns, heap, last, gnutls_global, running, read_queue, write_queue, rmtx, wmtx, rpc, peek, hookLeft, tpc, tline, npush, nhook, nread, wire, handled, dispatched, timer, watcher, quitAt, arrived, snap, ev_default, ev_is_running, handles, lpc, served>>
       ELSE /\ running' = TRUE
            /\ watcher' = "active"
            /\ timer' = "armed"
            /\ rpc' = "test"
            /\ UNCHANGED <<net, reads, conns, heap, process, last, gnutls_global, read_queue, write_queue, rmtx, wmtx, peek, hookLeft, tpc, tline, npush, nhook, nread, wire, handled, dispatched, quitAt, arrived, snap, ev_default, ev_is_running, handles, lpc, served>>

\* irc.c:197: while (conn->ev_is_running).  On a freed connection the flag
\* reads as either value.
Loop_Test ==
  /\ process = "running"
  /\ rpc = "test"
  /\ \/ /\ running \/ ~heap[Conn].live
        /\ rpc' = "wait"
     \/ /\ ~running \/ ~heap[Conn].live
        /\ rpc' = "exit"
  /\ UNCHANGED <<net, reads, conns, heap, process, last, gnutls_global, running, read_queue, write_queue, rmtx, wmtx, peek, hookLeft, tpc, tline, npush, nhook, nread, wire, handled, dispatched, timer, watcher, quitAt, arrived, snap, ev_default, ev_is_running, handles, lpc, served>>

\* irc.c:198 with irc_loop_read_callback (irc.c:210-236): the socket is
\* readable, one line is read and appended to the inbound queue under its
\* mutex, and ev_run returns.
ev_run_Readable ==
  /\ process = "running"
  /\ rpc = "wait"
  /\ watcher = "active"
  /\ heap[Conn].socket = "open"
  /\ rmtx = NoOwner
  /\ nread < MaxIn
  /\ Events < MaxEvents
  /\ \E line \in InLines :
       /\ read_queue' = Append(read_queue, line)
       /\ arrived' = Append(arrived, line)
  /\ nread' = nread + 1
  /\ rpc' = "drain_r"
  /\ UNCHANGED <<net, reads, conns, heap, process, last, gnutls_global, running, write_queue, rmtx, wmtx, peek, hookLeft, tpc, tline, npush, nhook, wire, handled, dispatched, timer, watcher, quitAt, snap, ev_default, ev_is_running, handles, lpc, served>>

\* irc.c:198 with irc_timeout_callback (irc.c:238-242): the one-shot timer
\* fires and ev_run returns.
ev_run_Timeout ==
  /\ process = "running"
  /\ rpc = "wait"
  /\ timer = "armed"
  /\ timer' = "fired"
  /\ rpc' = "drain_r"
  /\ UNCHANGED <<net, reads, conns, heap, process, last, gnutls_global, running, read_queue, write_queue, rmtx, wmtx, peek, hookLeft, tpc, tline, npush, nhook, nread, wire, handled, dispatched, watcher, quitAt, arrived, snap, ev_default, ev_is_running, handles, lpc, served>>

\* The lines whose nodes are in the outbound queue with both fields set.
QueuedLines ==
  {write_queue[i].line : i \in {k \in 1..Len(write_queue) : write_queue[k].st = "full"}}

\* The inbound drain with a handle_message that gives the connection up on
\* a line it does not dispatch: the running flag is cleared.
ReadQueue_Next_fatal ==
  /\ process = "running"
  /\ rpc = "drain_r"
  /\ IF read_queue = <<>>
     THEN /\ rpc' = "drain_w"
          /\ snap' = QueuedLines
          /\ UNCHANGED <<net, reads, conns, heap, process, last, gnutls_global, running, read_queue, write_queue, rmtx, wmtx, peek, hookLeft, tpc, tline, npush, nhook, nread, wire, handled, dispatched, timer, watcher, quitAt, arrived, ev_default, ev_is_running, handles, lpc, served>>
     ELSE LET line == Head(read_queue)
              keys == hooks_for(line)
          IN /\ handled' = Append(handled, line)
             /\ IF keys = <<>>
                THEN /\ rpc' = "lock_r"
                     /\ running' = FALSE
                     /\ UNCHANGED <<dispatched, hookLeft>>
                ELSE /\ rpc' = "hook"
                     /\ dispatched' = Append(dispatched,
                                        [n |-> Len(handled) + 1, key |-> Head(keys)])
                     /\ hookLeft' = Tail(keys)
                     /\ UNCHANGED running
             /\ UNCHANGED <<net, reads, conns, heap, process, last, gnutls_global, read_queue, write_queue, rmtx, wmtx, peek, tpc, tline, npush, nhook, nread, wire, timer, watcher, quitAt, arrived, snap, ev_default, ev_is_running, handles, lpc, served>>

\* irc_process_read_message_queue (irc.c:248-249): the loop test and the call
\* of handle_message on the head, up to its first exec_hooks.
ReadQueue_Next ==
  /\ process = "running"
  /\ rpc = "drain_r"
  /\ IF read_queue = <<>>
     THEN /\ rpc' = "drain_w"
          /\ snap' = QueuedLines
          /\ UNCHANGED <<net, reads, conns, heap, process, last, gnutls_global, running, read_queue, write_queue, rmtx, wmtx, peek, hookLeft, tpc, tline, npush, nhook, nread, wire, handled, dispatched, timer, watcher, quitAt, arrived, ev_default, ev_is_running, handles, lpc, served>>
     ELSE LET line == Head(read_queue)
              keys == hooks_for(line)
          IN /\ handled' = Append(handled, line)
             /\ IF keys = <<>>
                THEN /\ rpc' = "lock_r"
                     /\ UNCHANGED <<dispatched, hookLeft>>
                ELSE /\ rpc' = "hook"
                     /\ dispatched' = Append(dispatched,
                                        [n |-> Len(handled) + 1, key |-> Head(keys)])
                     /\ hookLeft' = Tail(keys)
             /\ UNCHANGED <<net, reads, conns, heap, process, last, gnutls_global, running, read_queue, write_queue, rmtx, wmtx, peek, tpc, tline, npush, nhook, nread, wire, timer, watcher, quitAt, arrived, snap, ev_default, ev_is_running, handles, lpc, served>>

\* A handler run by exec_hooks calls irc_push_string (irc.c:359-379) on the
\* reactor's thread.
Hook_Push ==
  /\ process = "running"
  /\ rpc = "hook"
  /\ Pushed < MaxPush
  /\ Events < MaxEvents
  /\ wmtx = NoOwner
  /\ \E c \in get_irc_server_connection(Srv) :
       IF c = NULL
       THEN /\ process' = "crashed"
            /\ UNCHANGED <<net, reads, conns, heap, last, gnutls_global, running, read_queue, write_queue, rmtx, wmtx, rpc, peek, hookLeft, tpc, tline, npush, nhook, nread, wire, handled, dispatched, timer, watcher, quitAt, arrived, snap, ev_default, ev_is_running, handles, lpc, served>>
       ELSE /\ write_queue' = Append(write_queue, Node(Line("hook", nhook + 1)))
            /\ nhook' = nhook + 1
            /\ UNCHANGED <<net, reads, conns, heap, process, last, gnutls_global, running, read_queue, rmtx, wmtx, rpc, peek, hookLeft, tpc, tline, npush, nread, wire, handled, dispatched, timer, watcher, quitAt, arrived, snap, ev_default, ev_is_running, handles, lpc, served>>

\* A handler run by exec_hooks calls quit_irc_connection (irc.c:563-578) on
\* the reactor's thread: the QUIT line is enqueued, the flag cleared, the
\* TLS state released (gnutls_deinit is handed an uninitialised session when
\* the server is not secure: it crashes or returns), the socket closed and
\* the connection freed.
Hook_Quit ==
  /\ process = "running"
  /\ rpc = "hook"
  /\ ~QuitCalled
  /\ wmtx = NoOwner
  /\ quitAt' = rpc
  /\ write_queue' = Append(write_queue, Node(Line("hook", 0)))
  /\ running' = FALSE
  /\ \/ /\ heap[Conn].tls = "uninit"
        /\ process' = "crashed"
        /\ UNCHANGED <<heap, wire, gnutls_global>>
     \/ /\ heap' = FreeConnection(Conn)
        /\ gnutls_global' = "down"
        /\ wire' = Append(wire, [line |-> Closed, res |-> "close"])
        /\ UNCHANGED process
  /\ UNCHANGED <<net, reads, conns, last, read_queue, rmtx, wmtx, rpc, peek, hookLeft, tpc, tline, npush, nhook, nread, handled, dispatched, timer, watcher, arrived, snap, ev_default, ev_is_running, handles, lpc, served>>

\* exec_hooks returns: handle_message calls it with the next key
\* (irc.c:292-293), or is done with the line (irc.c:294).
exec_hooks_Return ==
  /\ process = "running"
  /\ rpc = "hook"
  /\ IF hookLeft = <<>>
     THEN /\ rpc' = "lock_r"
          /\ UNCHANGED <<dispatched, hookLeft>>
     ELSE /\ dispatched' = Append(dispatched,
                             [n |-> Len(handled), key |-> Head(hookLeft)])
          /\ hookLeft' = Tail(hookLeft)
          /\ UNCHANGED rpc
  /\ UNCHANGED <<net, reads, conns, heap, process, last, gnutls_global, running, read_queue, write_queue, rmtx, wmtx, peek, tpc, tline, npush, nhook, nread, wire, handled, timer, watcher, quitAt, arrived, snap, ev_default, ev_is_running, handles, lpc, served>>

\* irc.c:250-252: next is read and the inbound mutex taken.
ReadQueue_Lock ==
  /\ process = "running"
  /\ rpc = "lock_r"
  /\ rmtx = NoOwner
  /\ rmtx' = Reactor
  /\ rpc' = "pop_r"
  /\ UNCHANGED <<net, reads, conns, heap, process, last, gnutls_global, running, read_queue, write_queue, wmtx, peek, hookLeft, tpc, tline, npush, nhook, nread, wire, handled, dispatched, timer, watcher, quitAt, arrived, snap, ev_default, ev_is_running, handles, lpc, served>>

\* The inbound drain without its pthread_mutex_unlock: the mutex stays with
\* the reactor while the next line is handled.
ReadQueue_Pop_holding ==
  /\ process = "running"
  /\ rpc = "pop_r"
  /\ read_queue' = Tail(read_queue)
  /\ rpc' = "drain_r"
  /\ UNCHANGED <<net, reads, conns, heap, process, last, gnutls_global, running, write_queue, rmtx, wmtx, peek, hookLeft, tpc, tline, npush, nhook, nread, wire, handled, dispatched, timer, watcher, quitAt, arrived, snap, ev_default, ev_is_running, handles, lpc, served>>

\* The inbound drain without its conn->read_queue = next: the head stays.
ReadQueue_Pop_not ==
  /\ process = "running"
  /\ rpc = "pop_r"
  /\ rmtx' = NoOwner
  /\ rpc' = "drain_r"
  /\ UNCHANGED <<net, reads, conns, heap, process, last, gnutls_global, running, read_queue, write_queue, wmtx, peek, hookLeft, tpc, tline, npush, nhook, nread, wire, handled, dispatched, timer, watcher, quitAt, arrived, snap, ev_default, ev_is_running, handles, lpc, served>>

\* irc.c:253-256: the head is freed, the queue advanced, the mutex released.
ReadQueue_Pop ==
  /\ process = "running"
  /\ rpc = "pop_r"
  /\ read_queue' = Tail(read_queue)
  /\ rmtx' = NoOwner
  /\ rpc' = "drain_r"
  /\ UNCHANGED <<net, reads, conns, heap, process, last, gnutls_global, running, write_queue, wmtx, peek, hookLeft, tpc, tline, npush, nhook, nread, wire, handled, dispatched, timer, watcher, quitAt, arrived, snap, ev_default, ev_is_running, handles, lpc, served>>

\* irc_process_write_message_queue (irc.c:265-267): the loop test and the
\* reads of the head's message and next, all without the mutex.  A head that
\* a push has linked but not yet filled gives uninitialised values.
WriteQueue_Peek ==
  /\ process = "running"
  /\ rpc = "drain_w"
  /\ IF write_queue = <<>>
     THEN /\ rpc' = "test"
          /\ UNCHANGED peek
     ELSE LET head == Head(write_queue) IN
          /\ rpc' = "write"
          /\ peek' = [str  |-> IF head.st = "uninit" THEN Garbage ELSE head.line,
                      next |-> IF head.st # "full" THEN "garbage"
                               ELSE IF Len(write_queue) = 1 THEN "null" ELSE "node"]
  /\ UNCHANGED <<net, reads, conns, heap, process, last, gnutls_global, running, read_queue, write_queue, rmtx, wmtx, hookLeft, tpc, tline, npush, nhook, nread, wire, handled, dispatched, timer, watcher, quitAt, arrived, snap, ev_default, ev_is_running, handles, lpc, served>>

\* irc.c:268: irc_write_bytes (conn->server, str, strlen (str)).  An
\* uninitialised str crashes in strlen or sends whatever it points to.
WriteQueue_Write ==
  /\ process = "running"
  /\ rpc = "write"
  /\ \/ /\ peek.str = Garbage
        /\ process' = "crashed"
        /\ UNCHANGED <<wire, rpc>>
     \/ /\ \E e \in irc_write_bytes(peek.str) : wire' = Append(wire, e)
        /\ rpc' = "lock_w"
        /\ UNCHANGED process
  /\ UNCHANGED <<net, reads, conns, heap, last, gnutls_global, running, read_queue, write_queue, rmtx, wmtx, peek, hookLeft, tpc, tline, npush, nhook, nread, handled, dispatched, timer, watcher, quitAt, arrived, snap, ev_default, ev_is_running, handles, lpc, served>>

\* irc.c:270: pthread_mutex_lock (&conn->write_queue_mtx).
WriteQueue_Lock ==
  /\ process = "running"
  /\ rpc = "lock_w"
  /\ wmtx = NoOwner
  /\ wmtx' = Reactor
  /\ rpc' = "pop_w"
  /\ UNCHANGED <<net, reads, conns, heap, process, last, gnutls_global, running, read_queue, write_queue, rmtx, peek, hookLeft, tpc, tline, npush, nhook, nread, wire, handled, dispatched, timer, watcher, quitAt, arrived, snap, ev_default, ev_is_running, handles, lpc, served>>

\* The outbound drain with conn->write_queue = NULL in place of
\* conn->write_queue = next: one send, and the queue is emptied.
WriteQueue_Pop_all ==
  /\ process = "running"
  /\ rpc = "pop_w"
  /\ write_queue' = <<>>
  /\ wmtx' = NoOwner
  /\ peek' = NoPeek
  /\ rpc' = "drain_w"
  /\ UNCHANGED <<net, reads, conns, heap, process, last, gnutls_global, running, read_queue, rmtx, hookLeft, tpc, tline, npush, nhook, nread, wire, handled, dispatched, timer, watcher, quitAt, arrived, snap, ev_default, ev_is_running, handles, lpc, served>>

\* irc.c:271-274: the head is freed and conn->write_queue set to the next
\* that was read before the send.  A NULL next empties the queue whatever has
\* been appended since; an uninitialised next is NULL or a wild pointer.
WriteQueue_Pop ==
  /\ process = "running"
  /\ rpc = "pop_w"
  /\ \/ /\ peek.next = "node"
        /\ write_queue' = Tail(write_queue)
        /\ UNCHANGED process
     \/ /\ peek.next \in {"null", "garbage"}
        /\ write_queue' = <<>>
        /\ UNCHANGED process
     \/ /\ peek.next = "garbage"
        /\ process' = "crashed"
        /\ UNCHANGED write_queue
  /\ wmtx' = NoOwner
  /\ peek' = NoPeek
  /\ rpc' = "drain_w"
  /\ UNCHANGED <<net, reads, conns, heap, last, gnutls_global, running, read_queue, rmtx, hookLeft, tpc, tline, npush, nhook, nread, wire, handled, dispatched, timer, watcher, quitAt, arrived, snap, ev_default, ev_is_running, handles, lpc, served>>

\* irc.c:203-206: the loop has ended; the timer and the watchers are stopped
\* and the event loop destroyed.
Loop_Exit ==
  /\ process = "running"
  /\ rpc = "exit"
  /\ timer' = "stopped"
  /\ watcher' = "stopped"
  /\ rpc' = "done"
  /\ UNCHANGED <<net, reads, conns, heap, process, last, gnutls_global, running, read_queue, write_queue, rmtx, wmtx, peek, hookLeft, tpc, tline, npush, nhook, nread, wire, handled, dispatched, quitAt, arrived, snap, ev_default, ev_is_running, handles, lpc, served>>

\* The reactor reads or writes a field of the connection after quit has freed
\* it (the queues, the mutexes, the flag): the program may crash there.
UseAfterFree_Crash ==
  /\ process = "running"
  /\ ~heap[Conn].live
  /\ rpc \notin {"wait", "hook", "done"}
  /\ process' = "crashed"
  /\ UNCHANGED <<net, reads, conns, heap, last, gnutls_global, running, read_queue, write_queue, rmtx, wmtx, rpc, peek, hookLeft, tpc, tline, npush, nhook, nread, wire, handled, dispatched, timer, watcher, quitAt, arrived, snap, ev_default, ev_is_running, handles, lpc, served>>

(***************************************************************************)
(* Threads outside the reactor.                                            *)
(***************************************************************************)
\* irc_push_string (irc.c:362): the lookup of the connection; with none found
\* the mutex is locked through a null pointer.
Push_Begin(t) ==
  /\ process = "running"
  /\ tpc[t] = "idle"
  /\ Pushed < MaxPush
  /\ Events < MaxEvents
  /\ \E c \in get_irc_server_connection(Srv) :
       IF c = NULL
       THEN /\ process' = "crashed"
            /\ UNCHANGED <<net, reads, conns, heap, last, gnutls_global, running, read_queue, write_queue, rmtx, wmtx, rpc, peek, hookLeft, tpc, tline, npush, nhook, nread, wire, handled, dispatched, timer, watcher, quitAt, arrived, snap, ev_default, ev_is_running, handles, lpc, served>>
       ELSE /\ tpc' = [tpc EXCEPT ![t] = "want"]
            /\ tline' = [tline EXCEPT ![t] = Line(t, npush[t] + 1)]
            /\ npush' = [npush EXCEPT ![t] = @ + 1]
            /\ UNCHANGED <<net, reads, conns, heap, process, last, gnutls_global, running, read_queue, write_queue, rmtx, wmtx, rpc, peek, hookLeft, nhook, nread, wire, handled, dispatched, timer, watcher, quitAt, arrived, snap, ev_default, ev_is_running, handles, lpc, served>>

\* quit_irc_connection (irc.c:566-570) up to its call of irc_push_string, on
\* a live connection that no one has quit yet.
Quit_Begin(t) ==
  /\ process = "running"
  /\ tpc[t] = "idle"
  /\ ~QuitCalled
  /\ heap[Conn].live
  /\ quitAt' = rpc
  /\ tpc' = [tpc EXCEPT ![t] = "want"]
  /\ tline' = [tline EXCEPT ![t] = Line(t, 0)]
  /\ UNCHANGED <<net, reads, conns, heap, process, last, gnutls_global, running, read_queue, write_queue, rmtx, wmtx, rpc, peek, hookLeft, npush, nhook, nread, wire, handled, dispatched, timer, watcher, arrived, snap, ev_default, ev_is_running, handles, lpc, served>>

\* irc.c:364: pthread_mutex_lock (&c->write_queue_mtx).
Push_Lock(t) ==
  /\ process = "running"
  /\ tpc[t] = "want"
  /\ wmtx = NoOwner
  /\ wmtx' = t
  /\ tpc' = [tpc EXCEPT ![t] = "locked"]
  /\ UNCHANGED <<net, reads, conns, heap, process, last, gnutls_global, running, read_queue, write_queue, rmtx, rpc, peek, hookLeft, tline, npush, nhook, nread, wire, handled, dispatched, timer, watcher, quitAt, arrived, snap, ev_default, ev_is_running, handles, lpc, served>>

\* irc.c:367: the queue is empty and the new node becomes its head, its
\* fields not yet set.
Push_LinkHead(t) ==
  /\ process = "running"
  /\ tpc[t] = "locked"
  /\ write_queue = <<>>
  /\ write_queue' = <<[line |-> tline[t], st |-> "uninit"]>>
  /\ tpc' = [tpc EXCEPT ![t] = "linked"]
  /\ UNCHANGED <<net, reads, conns, heap, process, last, gnutls_global, running, read_queue, rmtx, wmtx, rpc, peek, hookLeft, tline, npush, nhook, nread, wire, handled, dispatched, timer, watcher, quitAt, arrived, snap, ev_default, ev_is_running, handles, lpc, served>>

\* irc.c:368: the head's message is set.
Push_FillMessage(t) ==
  /\ process = "running"
  /\ tpc[t] = "linked"
  /\ write_queue' = [write_queue EXCEPT ![1].st = "half"]
  /\ tpc' = [tpc EXCEPT ![t] = "half"]
  /\ UNCHANGED <<net, reads, conns, heap, process, last, gnutls_global, running, read_queue, rmtx, wmtx, rpc, peek, hookLeft, tline, npush, nhook, nread, wire, handled, dispatched, timer, watcher, quitAt, arrived, snap, ev_default, ev_is_running, handles, lpc, served>>

\* irc.c:369: the head's next is set to NULL.
Push_FillNext(t) ==
  /\ process = "running"
  /\ tpc[t] = "half"
  /\ write_queue' = [write_queue EXCEPT ![1].st = "full"]
  /\ tpc' = [tpc EXCEPT ![t] = "filled"]
  /\ UNCHANGED <<net, reads, conns, heap, process, last, gnutls_global, running, read_queue, rmtx, wmtx, rpc, peek, hookLeft, tline, npush, nhook, nread, wire, handled, dispatched, timer, watcher, quitAt, arrived, snap, ev_default, ev_is_running, handles, lpc, served>>

\* irc.c:371-376: the queue is not empty and the new node is linked behind
\* its last node (no reader looks at a node that is not the head).
Push_AppendTail(t) ==
  /\ process = "running"
  /\ tpc[t] = "locked"
  /\ write_queue # <<>>
  /\ write_queue' = Append(write_queue, Node(tline[t]))
  /\ tpc' = [tpc EXCEPT ![t] = "filled"]
  /\ UNCHANGED <<net, reads, conns, heap, process, last, gnutls_global, running, read_queue, rmtx, wmtx, rpc, peek, hookLeft, tline, npush, nhook, nread, wire, handled, dispatched, timer, watcher, quitAt, arrived, snap, ev_default, ev_is_running, handles, lpc, served>>

\* irc.c:378: the mutex is released; quit goes on to its teardown.
Push_Unlock(t) ==
  /\ process = "running"
  /\ tpc[t] = "filled"
  /\ wmtx' = NoOwner
  /\ tpc' = [tpc EXCEPT ![t] = IF IsQuit(tline[t]) THEN "teardown" ELSE "idle"]
  /\ tline' = [tline EXCEPT ![t] = IF IsQuit(tline[t]) THEN @ ELSE Garbage]
  /\ UNCHANGED <<net, reads, conns, heap, process, last, gnutls_global, running, read_queue, write_queue, rmtx, rpc, peek, hookLeft, npush, nhook, nread, wire, handled, dispatched, timer, watcher, quitAt, arrived, snap, ev_default, ev_is_running, handles, lpc, served>>

\* quit_irc_connection (irc.c:572-577) on a thread outside the reactor.
Quit_Teardown(t) ==
  /\ process = "running"
  /\ tpc[t] = "teardown"
  /\ running' = FALSE
  /\ tpc' = [tpc EXCEPT ![t] = "done"]
  /\ \/ /\ heap[Conn].tls = "uninit"
        /\ process' = "crashed"
        /\ UNCHANGED <<heap, wire, gnutls_global>>
     \/ /\ heap' = FreeConnection(Conn)
        /\ gnutls_global' = "down"
        /\ wire' = Append(wire, [line |-> Closed, res |-> "close"])
        /\ UNCHANGED process
  /\ UNCHANGED <<net, reads, conns, last, read_queue, write_queue, rmtx, wmtx, rpc, peek, hookLeft, tline, npush, nhook, nread, handled, dispatched, timer, watcher, quitAt, arrived, snap, ev_default, ev_is_running, handles, lpc, served>>

Next ==
  \/ Loop_Init
  \/ Loop_Test
  \/ ev_run_Readable
  \/ ev_run_Timeout
  \/ ReadQueue_Next
  \/ Hook_Push
  \/ Hook_Quit
  \/ exec_hooks_Return
  \/ ReadQueue_Lock
  \/ ReadQueue_Pop
  \/ WriteQueue_Peek
  \/ WriteQueue_Write
  \/ WriteQueue_Lock
  \/ WriteQueue_Pop
  \/ Loop_Exit
  \/ UseAfterFree_Crash
  \/ \E t \in Threads : Push_Begin(t)
  \/ \E t \in Threads : Quit_Begin(t)
  \/ \E t \in Threads : Push_Lock(t)
  \/ \E t \in Threads : Push_LinkHead(t)
  \/ \E t \in Threads : Push_FillMessage(t)
  \/ \E t \in Threads : Push_FillNext(t)
  \/ \E t \in Threads : Push_AppendTail(t)
  \/ \E t \in Threads : Push_Unlock(t)
  \/ \E t \in Threads : Quit_Teardown(t)

Spec == Init /\ [][Next]_vars

\* The steps the reactor's thread takes by itself once it can: the timer
\* fires when its time has passed and a handler returns; the peer is free
\* never to send, a handler is free not to push or quit, and a read of freed
\* memory is free not to crash.
ReactorStep ==
  \/ Loop_Init
  \/ Loop_Test
  \/ ev_run_Timeout
  \/ ReadQueue_Next
  \/ exec_hooks_Return
  \/ ReadQueue_Lock
  \/ ReadQueue_Pop
  \/ WriteQueue_Peek
  \/ WriteQueue_Write
  \/ WriteQueue_Lock
  \/ WriteQueue_Pop
  \/ Loop_Exit

\* The steps thread t takes once it has entered irc_push_string or
\* quit_irc_connection.
ThreadStep(t) ==
  \/ Push_Lock(t)
  \/ Push_LinkHead(t)
  \/ Push_FillMessage(t)
  \/ Push_FillNext(t)
  \/ Push_AppendTail(t)
  \/ Push_Unlock(t)
  \/ Quit_Teardown(t)

\* The reactor with a fair scheduler: every thread that can go on does.
SpecFair ==
  /\ Init
  /\ [][Next]_vars
  /\ WF_vars(ReactorStep)
  /\ \A t \in Threads : WF_vars(ThreadStep(t))

(***************************************************************************)
(* Two connections, each driven by its own irc_do_event_loop on a thread   *)
(* of its own, and quit called on either.  Every irc_do_event_loop takes   *)
(* EV_DEFAULT, the one default event loop of the process (irc.c:183).      *)
(***************************************************************************)
\* The addresses of the two connections and the servers they belong to.
Pair == {1, 2}
PairServer(a) == IF a = 1 THEN "s1" ELSE "s3"

\* irc.c:181-195: the default loop is taken (and made when there is none),
\* the flag set, the watcher and the timer started on the loop.
Pair_Start(a) ==
  /\ process = "running"
  /\ lpc[a] = "idle"
  /\ heap[a].live
  /\ ev_default' = "alive"
  /\ ev_is_running' = [ev_is_running EXCEPT ![a] = TRUE]
  /\ handles' = [handles EXCEPT ![a] = [watcher |-> "active", timer |-> "armed"]]
  /\ lpc' = [lpc EXCEPT ![a] = "test"]
  /\ UNCHANGED <<readVars, regVars, loopVars, served>>

\* irc.c:197: while (conn->ev_is_running); on a freed connection the flag
\* reads as either value.
Pair_Test(a) ==
  /\ process = "running"
  /\ lpc[a] = "test"
  /\ \/ /\ ev_is_running[a] \/ ~heap[a].live
        /\ lpc' = [lpc EXCEPT ![a] = "wait"]
     \/ /\ ~ev_is_running[a] \/ ~heap[a].live
        /\ lpc' = [lpc EXCEPT ![a] = "exit"]
  /\ UNCHANGED <<readVars, regVars, loopVars, ev_default, ev_is_running, handles, served>>

\* irc.c:198: ev_run returns after the read callback of the connection's
\* watcher has read one line.
Pair_Readable(a) ==
  /\ process = "running"
  /\ lpc[a] = "wait"
  /\ ev_default = "alive"
  /\ handles[a].watcher = "active"
  /\ heap[a].socket = "open"
  /\ served[a] < MaxServe
  /\ served' = [served EXCEPT ![a] = @ + 1]
  /\ lpc' = [lpc EXCEPT ![a] = "drain"]
  /\ UNCHANGED <<readVars, regVars, loopVars, ev_default, ev_is_running, handles>>

\* irc.c:198: ev_run returns after the connection's one-shot timer fired.
Pair_Timeout(a) ==
  /\ process = "running"
  /\ lpc[a] = "wait"
  /\ ev_default = "alive"
  /\ handles[a].timer = "armed"
  /\ handles' = [handles EXCEPT ![a].timer = "fired"]
  /\ lpc' = [lpc EXCEPT ![a] = "drain"]
  /\ UNCHANGED <<readVars, regVars, loopVars, ev_default, ev_is_running, served>>

\* irc.c:198: ev_run on the default loop after ev_loop_destroy has been
\* called on it: the call crashes, or never returns (no step).
Pair_RunDestroyed(a) ==
  /\ process = "running"
  /\ lpc[a] = "wait"
  /\ ev_default = "destroyed"
  /\ process' = "crashed"
  /\ UNCHANGED <<readVars, conns, heap, last, gnutls_global, loopVars, pairVars>>

\* irc.c:199-200: the two drains.
Pair_Drain(a) ==
  /\ process = "running"
  /\ lpc[a] = "drain"
  /\ lpc' = [lpc EXCEPT ![a] = "test"]
  /\ UNCHANGED <<readVars, regVars, loopVars, ev_default, ev_is_running, handles, served>>

\* quit_irc_connection (irc.c:563-578) on the server of connection a, from a
\* thread of the application: the flag is cleared, the TLS state released
\* (an uninitialised session: the call crashes or returns), the socket
\* closed, the connection freed.
Pair_Quit(a) ==
  /\ process = "running"
  /\ heap[a].live
  /\ ev_is_running' = [ev_is_running EXCEPT ![a] = FALSE]
  /\ \/ /\ heap[a].tls = "uninit"
        /\ process' = "crashed"
        /\ UNCHANGED <<heap, gnutls_global>>
     \/ /\ heap' = FreeConnection(a)
        /\ gnutls_global' = "down"
        /\ UNCHANGED process
  /\ UNCHANGED <<readVars, conns, last, loopVars, ev_default, handles, lpc, served>>

\* irc.c:203-206: the timer and the watcher of the connection are stopped
\* and ev_loop_destroy is called on the default loop, which takes every
\* watcher and timer any other connection has started on it.
Pair_Exit(a) ==
  /\ process = "running"
  /\ lpc[a] = "exit"
  /\ ev_default' = "destroyed"
  /\ handles' =
       [b \in Addr |->
          IF b = a
          THEN [watcher |-> "stopped", timer |-> "stopped"]
          ELSE [watcher |-> IF handles[b].watcher = "active"
                            THEN "lost" ELSE handles[b].watcher,
                timer   |-> IF handles[b].timer = "armed"
                            THEN "lost" ELSE handles[b].timer]]
  /\ lpc' = [lpc EXCEPT ![a] = "done"]
  /\ UNCHANGED <<readVars, regVars, loopVars, ev_is_running, served>>

NextPair ==
  \/ \E a \in Pair : Pair_Start(a)
  \/ \E a \in Pair : Pair_Test(a)
  \/ \E a \in Pair : Pair_Readable(a)
  \/ \E a \in Pair : Pair_Timeout(a)
  \/ \E a \in Pair : Pair_RunDestroyed(a)
  \/ \E a \in Pair : Pair_Drain(a)
  \/ \E a \in Pair : Pair_Quit(a)
  \/ \E a \in Pair : Pair_Exit(a)

\* Connect has returned 0 for both servers.
InitPair ==
  /\ conns = [i \in 0..MAX_CONNECTIONS |-> IF i + 1 \in Pair THEN i + 1 ELSE NULL]
  /\ heap = [a \in Addr |-> IF a \in Pair
                          THEN create_irc_connection(PairServer(a), "open")
                          ELSE NoChunk]
  /\ process = "running"
  /\ last = NoCall
  /\ gnutls_global = "up"
  /\ net = <<>>
  /\ reads = <<>>
  /\ running = FALSE
  /\ read_queue = <<>>
  /\ write_queue = <<>>
  /\ rmtx = NoOwner
  /\ wmtx = NoOwner
  /\ rpc = "init"
  /\ peek = NoPeek
  /\ hookLeft = <<>>
  /\ tpc = [t \in Threads |-> "idle"]
  /\ tline = [t \in Threads |-> Garbage]
  /\ npush = [t \in Threads |-> 0]
  /\ nhook = 0
  /\ nread = 0
  /\ wire = <<>>
  /\ handled = <<>>
  /\ arrived = <<>>
  /\ snap = {}
  /\ ev_default = "none"
  /\ ev_is_running = [a \in Addr |-> FALSE]
  /\ handles = [a \in Addr |-> NoHandles]
  /\ lpc = [a \in Addr |-> "idle"]
  /\ served = [a \in Addr |-> 0]
  /\ dispatched = <<>>
  /\ timer = "unset"
  /\ watcher = "unset"
  /\ quitAt = "none"

SpecPair == InitPair /\ [][NextPair]_vars

NextReg ==
  \/ \E s \in Servers : irc_server_connect(s)
  \/ \E s \in Servers : quit_irc_connection(s)

\* The program before its first connect: nothing registered, nothing read.
InitReg ==
  /\ conns = NoConns
  /\ heap = NoHeap
  /\ process = "running"
  /\ last = NoCall
  /\ gnutls_global = "up"
  /\ net = <<>>
  /\ reads = <<>>
  /\ running = FALSE
  /\ read_queue = <<>>
  /\ write_queue = <<>>
  /\ rmtx = NoOwner
  /\ wmtx = NoOwner
  /\ rpc = "init"
  /\ peek = NoPeek
  /\ hookLeft = <<>>
  /\ tpc = [t \in Threads |-> "idle"]
  /\ tline = [t \in Threads |-> Garbage]
  /\ npush = [t \in Threads |-> 0]
  /\ nhook = 0
  /\ nread = 0
  /\ wire = <<>>
  /\ handled = <<>>
  /\ arrived = <<>>
  /\ snap = {}
  /\ ev_default = "none"
  /\ ev_is_running = [a \in Addr |-> FALSE]
  /\ handles = [a \in Addr |-> NoHandles]
  /\ lpc = [a \in Addr |-> "idle"]
  /\ served = [a \in Addr |-> 0]
  /\ dispatched = <<>>
  /\ timer = "unset"
  /\ watcher = "unset"
  /\ quitAt = "none"

SpecReg == InitReg /\ [][NextReg]_vars

\* The line reader of one connection (the chunk at address 1), given any
\* byte stream.
InitRead ==
  /\ net \in ByteStreams
  /\ reads = <<>>
  /\ conns = [NoConns EXCEPT ![0] = 1]
  /\ heap = [NoHeap EXCEPT ![1] = create_irc_connection("s1", "open")]
  /\ process = "running"
  /\ last = NoCall
  /\ gnutls_global = "up"
  /\ running = FALSE
  /\ read_queue = <<>>
  /\ write_queue = <<>>
  /\ rmtx = NoOwner
  /\ wmtx = NoOwner
  /\ rpc = "init"
  /\ peek = NoPeek
  /\ hookLeft = <<>>
  /\ tpc = [t \in Threads |-> "idle"]
  /\ tline = [t \in Threads |-> Garbage]
  /\ npush = [t \in Threads |-> 0]
  /\ nhook = 0
  /\ nread = 0
  /\ wire = <<>>
  /\ handled = <<>>
  /\ arrived = <<>>
  /\ snap = {}
  /\ ev_default = "none"
  /\ ev_is_running = [a \in Addr |-> FALSE]
  /\ handles = [a \in Addr |-> NoHandles]
  /\ lpc = [a \in Addr |-> "idle"]
  /\ served = [a \in Addr |-> 0]
  /\ dispatched = <<>>
  /\ timer = "unset"
  /\ watcher = "unset"
  /\ quitAt = "none"

SpecRead == InitRead /\ [][NextRead]_vars

(***************************************************************************)
(* Claims about the line reader (checked under SpecRead).                  *)
(***************************************************************************)
Prefix(seq, n) == SubSeq(seq, 1, n)

\* seq ends in the two-byte terminator.
EndsInCRLF(seq) ==
  Len(seq) >= 2 /\ seq[Len(seq) - 1] = CR /\ seq[Len(seq)] = LF

\* The lengths n <= IRC_MESSAGE_SIZE - 1 at which a prefix of in ends in "\r\n".
TerminatedLengths(in) ==
  {n \in 2..(IRC_MESSAGE_SIZE - 1) : n <= Len(in) /\ EndsInCRLF(Prefix(in, n))}

\* n is the least element of the non-empty set S.
IsLeast(n, S) == n \in S /\ \A m \in S : n <= m

\* The bytes in front of the buffer hold neither '\r' nor '\n'.
BenignHeader(pre) == pre[1] # CR /\ pre[2] # CR /\ pre[2] # LF

\* C7 (as claimed): irc_read_message stops only when the last two bytes stored
\* are '\r' '\n' or at the size limit: the returned line is the shortest prefix
\* of the input that ends in "\r\n", or the first IRC_MESSAGE_SIZE-1 bytes when
\* no such prefix exists within the limit.  Stated for reads whose transport
\* holds enough bytes and whose buffer is not preceded by a stray '\r' or '\n'.
C7_LineIsShortestCRLFPrefix ==
  \A k \in 1..Len(reads) :
    LET r == reads[k]
        T == TerminatedLengths(r.in)
    IN  BenignHeader(r.pre) =>
          /\ \A n \in T : IsLeast(n, T) => CString(r.buf) = Prefix(r.in, n)
          /\ (T = {} /\ Len(r.in) >= IRC_MESSAGE_SIZE - 1)
               => CString(r.buf) = Prefix(r.in, IRC_MESSAGE_SIZE - 1)

\* The transport held a full buffer's worth of bytes with no "\r\n" in it.
FullUnterminated(in) ==
  Len(in) >= IRC_MESSAGE_SIZE - 1 /\ TerminatedLengths(in) = {}

\* Neither '\r' nor '\n' occurs in the first IRC_MESSAGE_SIZE-1 bytes.
NoCRorLF(in) ==
  \A j \in 1..(IRC_MESSAGE_SIZE - 1) : j <= Len(in) => in[j] \notin {CR, LF}

\* C8: when the transport delivers a full buffer's worth of bytes with no
\* "\r\n", irc_read_message reports no error and returns a NUL-terminated
\* line that is a truncation (a prefix) of those bytes; it stores no byte
\* other than NUL at index IRC_MESSAGE_SIZE-1 and writes nothing beyond it;
\* with no stray '\r' or '\n' the line is cut at IRC_MESSAGE_SIZE-1 bytes;
\* and the next read starts with the first byte the truncated read did not
\* consume, in a buffer that holds nothing but its own line.
C8_TruncatedNotRejected ==
  \A k \in 1..Len(reads) :
    LET r == reads[k] IN
      FullUnterminated(r.in) =>
        /\ r.ret # -1
        /\ r.ret \in 0..(IRC_MESSAGE_SIZE - 1)
        /\ r.buf[r.ret] = NUL
        /\ r.buf[IRC_MESSAGE_SIZE - 1] = NUL
        /\ r.top < IRC_MESSAGE_SIZE - 1
        /\ r.hi <= IRC_MESSAGE_SIZE - 1
        /\ CString(r.buf) = Prefix(r.in, r.ret)
        /\ (NoCRorLF(r.in) /\ BenignHeader(r.pre)) => r.ret = IRC_MESSAGE_SIZE - 1
        /\ k < Len(reads) =>
             LET q == reads[k + 1] IN
               /\ q.in = SubSeq(r.in, r.ret + 1, Len(r.in))
               /\ q.ret # -1
               /\ CString(q.buf) = Prefix(q.in, strlen(q.buf))
               /\ \A j \in strlen(q.buf)..(IRC_MESSAGE_SIZE - 1) : q.buf[j] = NUL

\* Witness of C8: a read truncated at the size limit, followed by a second
\* read that took up the stream where the first one stopped.
C8_Witness ==
  /\ Len(reads) >= 2
  /\ FullUnterminated(reads[1].in)
  /\ NoCRorLF(reads[1].in)
  /\ reads[1].ret = IRC_MESSAGE_SIZE - 1
  /\ reads[2].ret >= 1

(***************************************************************************)
(* Claims about the registry and the lifecycle (checked under SpecReg).    *)
(***************************************************************************)
\* The latest call was a connect made while every usable slot was taken.
ConnectAtCap == last.op = "connect" /\ last.held = MAX_CONNECTIONS

\* C3: the registry never holds more than MAX_CONNECTIONS connections (the
\* sentinel slot stays NULL), and a connect attempt made while it holds
\* MAX_CONNECTIONS entries returns -1 before irc_create_socket is called and
\* changes neither the registry nor the heap nor the process.
C3_CapEnforced ==
  /\ [](/\ Held <= MAX_CONNECTIONS
        /\ conns[MAX_CONNECTIONS] = NULL
        /\ ConnectAtCap => (last.ret = "-1" /\ last.sockets = 0 /\ last.steps = <<>>))
  /\ [][(Held = MAX_CONNECTIONS /\ last'.op = "connect")
          => (/\ last'.ret = "-1"
              /\ last'.sockets = 0
              /\ conns' = conns
              /\ heap' = heap
              /\ process' = process)]_vars

\* Witness of C3: with every usable slot holding a live connection of its
\* own, a connect for a server that is not connected was refused because the
\* registry was full.
C3_Witness ==
  /\ ConnectAtCap
  /\ \A i \in 0..(MAX_CONNECTIONS - 1) : conns[i] # NULL /\ heap[conns[i]].live
  /\ \A i, j \in 0..(MAX_CONNECTIONS - 1) : i # j => conns[i] # conns[j]
  /\ last.why = "full"
  /\ last.ret = "-1"
  /\ ~last.wasLive
  /\ process = "running"

\* C4 (as claimed): a connect for a server with a live registered connection
\* returns -1 without creating a socket, and in every reachable state no two
\* registry entries are entries of the same server.
C4_OneEntryPerServer ==
  /\ (last.op = "connect" /\ last.wasLive) => (last.ret = "-1" /\ last.sockets = 0)
  /\ \A i, j \in 0..MAX_CONNECTIONS :
       (i < j /\ conns[i] # NULL /\ conns[j] # NULL)
         => heap[conns[i]].server # heap[conns[j]].server

\* C5 (as claimed): after quit (server) has completed, the registry holds no
\* entry for the server: no slot points to the destroyed connection, the
\* lookup by server returns NULL (server_connected is false), and the slot no
\* longer counts toward the cap.
C5_QuitUnregisters ==
  (last.op = "quit" /\ last.why = "quit" /\ process = "running") =>
    /\ \A i \in 0..MAX_CONNECTIONS : conns[i] # last.conn
    /\ get_irc_server_connection(last.server) = {NULL}
    /\ Held = last.held - 1

\* The setup-time failures C9 names.
SetupFailures ==
  {"getaddrinfo", "connect", "fcntl", "select_timeout", "select_error", "getsockopt"}

\* C9 (as claimed): a setup-time failure during connect is returned to the
\* caller as an error result and never terminates the process.
C9_SetupFailureReturned ==
  (last.op = "connect" /\ last.fault \in SetupFailures) =>
    (process = "running" /\ last.ret = "-1")

\* The order of the setup steps for server s.
SetupOrder(s) ==
  <<"socket", "register">> \o (IF secure(s) THEN <<"handshake">> ELSE <<>>)
    \o <<"nonblock", "verify">>

\* C10 (as claimed): setup runs create socket, register, (if secure) TLS
\* handshake, set non-blocking, verify readiness, in this order; and when a
\* step after registration has failed and connect returns, the registry holds
\* no entry for the server and connect does not report success.
C10_FailedSetupLeavesNoEntry ==
  last.op = "connect" =>
    /\ Len(last.steps) <= Len(SetupOrder(last.server))
    /\ last.steps = SubSeq(SetupOrder(last.server), 1, Len(last.steps))
    /\ (last.ret # "none"
        /\ (last.handshake = "failed"
            \/ last.fault \in {"fcntl", "select_timeout", "select_error",
                               "getsockopt", "fd_not_set"}))
         => (last.ret # "0" /\ ~LiveRegistered(last.server))

(***************************************************************************)
(* Claims about the reactor and its queues (checked under Spec).           *)
(***************************************************************************)
\* The lines whose irc_push_string call has returned (QUIT lines included).
Enqueued ==
  ({Line("hook", k) : k \in 1..nhook}
     \cup UNION {{Line(t, k) : k \in 1..npush[t]} : t \in Threads}
     \cup {tline[t] : t \in {u \in Threads : tpc[u] \in {"teardown", "done"}}})
    \ {tline[t] : t \in {u \in Threads : tpc[u] \in {"want", "locked", "linked",
                                                   "half", "filled"}}}

\* The calls of irc_write_bytes made for line l.
Sends(l) == Cardinality({i \in 1..Len(wire) : wire[i].line = l})

\* Line l is in the outbound queue and has not been handed to the socket
\* write yet (the drain sends the head before it unlinks it).
Pending(l) ==
  \E i \in 1..Len(write_queue) :
    /\ write_queue[i].line = l
    /\ ~(i = 1 /\ rpc \in {"lock_w", "pop_w"})

\* C1 (as claimed): with enqueues from other threads and from handlers
\* interleaved with the reactor's outbound drain on a live connection, every
\* enqueued line is passed to the socket write exactly once (it is still
\* pending or has been passed once, never lost, never passed twice), and the
\* lines of one caller are passed in the caller's enqueue order.
C1_EveryLineWrittenOnce ==
  (process = "running" /\ heap[Conn].live) =>
    /\ \A l \in Enqueued :
         /\ Sends(l) <= 1
         /\ Sends(l) = 0 <=> Pending(l)
    /\ \A i, j \in 1..Len(wire) :
         (wire[i].line.by = wire[j].line.by /\ wire[i].line.k < wire[j].line.k)
           => i < j

\* Quit was called while the reactor's loop was running.
QuitWhileLooping == quitAt \notin {"none", "init", "exit", "done"}

\* C2 (as claimed): when quit is called while the reactor's loop is running,
\* the socket is never closed while the QUIT line is still in the outbound
\* queue: once the socket is closed the QUIT line has been sent on it.
C2_QuitFlushedBeforeClose ==
  (QuitWhileLooping /\ heap[Conn].socket = "closed") =>
    /\ \A i \in 1..Len(write_queue) : ~IsQuit(write_queue[i].line)
    /\ \E i \in 1..Len(wire) : IsQuit(wire[i].line) /\ wire[i].res = "sent"

\* The keys exec_hooks was called with for the n-th line handed to
\* handle_message, in call order.
RECURSIVE KeysOf(_, _)
KeysOf(n, log) ==
  IF log = <<>>
  THEN <<>>
  ELSE (IF Head(log).n = n THEN <<Head(log).key>> ELSE <<>>) \o KeysOf(n, Tail(log))

\* handle_message has returned for the n-th line handed to it.
HandleReturned(n) == n < Len(handled) \/ rpc # "hook"

\* C6: for every line drained from the inbound queue, exec_hooks is called
\* exactly twice when the line is non-empty and parses, first with the
\* line's command and then with "*", and not at all when the line is empty
\* or does not parse (while handle_message is still running, the first call
\* or both have been made).
C6_DispatchTwiceOrNever ==
  /\ \A i \in 1..Len(dispatched) : dispatched[i].n \in 1..Len(handled)
  /\ \A n \in 1..Len(handled) :
       LET line == handled[n]
           keys == KeysOf(n, dispatched)
           parsed == line # "" /\ ircmsg_parse(line) # 0
       IN  IF ~parsed
           THEN keys = <<>>
           ELSE IF HandleReturned(n)
                THEN keys = <<Command(line), "*">>
                ELSE keys \in {<<Command(line)>>, <<Command(line), "*">>}

\* Witness of C6: a line that parses has been drained and dispatched twice,
\* and handle_message has returned.
C6_Witness ==
  /\ Len(handled) >= 1
  /\ handled[1] = "PING"
  /\ HandleReturned(1)
  /\ dispatched = <<[n |-> 1, key |-> "PING"], [n |-> 1, key |-> "*"]>>
  /\ process = "running"

\* A logged call of irc_write_bytes that failed on the open socket for a line
\* some caller enqueued.
FailedWrites ==
  {i \in 1..Len(wire) : wire[i].res = "failed" /\ wire[i].line # Garbage}

\* C11 (as claimed): a line whose socket write has failed during the
\* outbound drain is never silently removed from the queue: it is still in
\* the queue (to be retried), or a later write of it has succeeded, or the
\* connection has been marked failed (running flag cleared) and torn down.
C11_FailedWriteNotDropped ==
  \A i \in FailedWrites :
    \/ \E k \in 1..Len(write_queue) : write_queue[k].line = wire[i].line
    \/ \E j \in (i + 1)..Len(wire) :
         wire[j].line = wire[i].line /\ wire[j].res = "sent"
    \/ ~running /\ ~heap[Conn].live

\* Quit has cleared the running flag of a connection whose loop was running.
FlagClearedByQuit == QuitWhileLooping /\ ~running

\* irc_do_event_loop has returned with the watcher and the timer stopped.
LoopExited == rpc = "done" /\ watcher = "stopped" /\ timer = "stopped"

\* C12 (as claimed): once quit has cleared the running flag, from a handler
\* or from another thread, irc_do_event_loop eventually returns with the
\* watcher and the timer stopped (behaviours in which the process crashes on
\* the freed connection are left aside).
C12_LoopExitsAfterQuit ==
  FlagClearedByQuit ~> (LoopExited \/ process # "running")

\* The reactor's thread is waiting for a queue mutex: in a drain, or inside
\* irc_push_string called by a handler.
ReactorWaits ==
  \/ rpc = "lock_r" /\ rmtx # NoOwner
  \/ rpc = "lock_w" /\ wmtx # NoOwner
  \/ rpc = "hook" /\ wmtx # NoOwner

\* Thread t is waiting for the outbound mutex.
ThreadWaits(t) == tpc[t] = "want" /\ wmtx # NoOwner

\* C13: the reactor holds no queue mutex while handle_message (and so
\* exec_hooks and a handler's irc_push_string) or the socket write is
\* executing; it holds a mutex only across the unlink of a head, a thread
\* only inside irc_push_string, so whoever holds a mutex can go on and there
\* is no state in which every thread waits for a queue mutex.
C13_NoLockHeldInHandler ==
  /\ rpc \in {"hook", "write"} => (rmtx # Reactor /\ wmtx # Reactor)
  /\ rmtx = Reactor => rpc = "pop_r"
  /\ wmtx = Reactor => rpc = "pop_w"
  /\ rmtx \in {NoOwner, Reactor}
  /\ \A t \in Threads :
       wmtx = t => tpc[t] \in {"locked", "linked", "half", "filled"}
  /\ ~(ReactorWaits /\ \A t \in Threads : ThreadWaits(t))

\* Witness of C13: a handler has enqueued a line from inside the inbound
\* drain, and it is still running while a thread outside the reactor holds
\* the outbound mutex in its own irc_push_string.
C13_Witness ==
  /\ rpc = "hook"
  /\ nhook >= 1
  /\ \E t \in Threads : wmtx = t /\ tpc[t] = "locked"
  /\ process = "running"
  /\ heap[Conn].live

\* The head of the inbound queue has been handed to handle_message and is
\* not unlinked yet.
HeadInHand == rpc \in {"hook", "lock_r", "pop_r"}

\* The lines of the inbound queue that have not been handed on yet.
Unhandled == IF HeadInHand THEN Tail(read_queue) ELSE read_queue

\* C14: inbound lines are handed to handle_message in arrival order, none
\* skipped and none twice: the lines handed on so far are the first lines
\* read from the socket, in the order read, the lines read and not handed on
\* yet are exactly those waiting in the inbound queue, in the order read, and
\* when the reactor is past its inbound drain every line read has been
\* handed on once.
C14_InboundInArrivalOrder ==
  /\ HeadInHand => read_queue # <<>>
  /\ arrived = handled \o Unhandled
  /\ rpc \in {"drain_w", "write", "lock_w", "pop_w", "test", "wait"}
       => handled = arrived

\* Witness of C14: two different lines were read, one after the other, and
\* both have been handed on, in the order read.
C14_Witness ==
  /\ Len(arrived) = 2
  /\ arrived[1] # arrived[2]
  /\ handled = arrived
  /\ rpc = "wait"
  /\ process = "running"

\* The reactor is back in the readiness wait with its connection alive.
BackInWait ==
  /\ rpc = "wait"
  /\ process = "running"
  /\ heap[Conn].live
  /\ timer = "fired" \/ nread > 0

NotDispatched(line) == hooks_for(line) = <<>>

\* What a step of the inbound drain on such a line leaves as it is.
ConnectionUntouched ==
  /\ running' = running
  /\ heap' = heap
  /\ conns' = conns
  /\ process' = process
  /\ write_queue' = write_queue
  /\ wire' = wire

\* C17: handling an empty line or a line that does not parse is not fatal.
\* The call of handle_message on it, and the unlink that follows, leave the
\* running flag, the socket, the registry and the outbound queue unchanged;
\* the unlink removes that one line from the inbound queue and no other, so
\* the lines behind it stay to be handed on.
C17_BadLineNotFatal ==
  [][/\ (/\ rpc = "drain_r"
          /\ read_queue # <<>>
          /\ NotDispatched(Head(read_queue))
          /\ rpc' # rpc)
        => (/\ rpc' = "lock_r"
            /\ handled' = Append(handled, Head(read_queue))
            /\ dispatched' = dispatched
            /\ read_queue' = read_queue
            /\ ConnectionUntouched)
     /\ (/\ rpc \in {"lock_r", "pop_r"}
          /\ handled # <<>>
          /\ NotDispatched(handled[Len(handled)])
          /\ rpc' # rpc)
        => (/\ read_queue' = (IF rpc = "pop_r" THEN Tail(read_queue) ELSE read_queue)
            /\ rpc' = (IF rpc = "pop_r" THEN "drain_r" ELSE "pop_r")
            /\ ConnectionUntouched)]_vars

\* Witness of C17: a line that is empty or does not parse was handled and
\* unlinked, and a line read after it has been handed to handle_message on
\* the same, still running connection.
C17_Witness ==
  /\ Len(handled) = 2
  /\ NotDispatched(handled[1])
  /\ handled[2] = "PING"
  /\ running
  /\ heap[Conn].live
  /\ heap[Conn].socket = "open"
  /\ process = "running"

\* The positions of the reactor from which its next step reads or writes a
\* field of the connection: the running flag (irc.c:197), the queues and
\* their mutexes (irc.c:248-256, 264-274), the watcher and the timer
\* (irc.c:203-205).
TouchesConnection ==
  {"test", "drain_r", "lock_r", "pop_r", "drain_w", "write", "lock_w", "pop_w", "exit"}

\* C18 (as claimed): once quit_irc_connection has freed the connection, the
\* reactor takes no step that reads or writes the connection's fields: not
\* the loop test, not a step of either drain, not the stop of the watcher
\* and the timer.
C18_NoUseAfterQuit ==
  [][(/\ process = "running"
      /\ ~heap[Conn].live
      /\ rpc \in TouchesConnection)
     => rpc' = rpc]_vars

\* The lines a thread outside the reactor can push.
ThreadLines == UNION {{Line(t, k) : k \in 1..MaxPush} : t \in Threads}

\* Line l is a complete node of the outbound queue of the running connection,
\* its pusher back from irc_push_string, while the reactor is blocked in
\* ev_run after the one-shot timer has fired.
EnqueuedWhileWaiting(l) ==
  /\ process = "running"
  /\ heap[Conn].live
  /\ running
  /\ rpc = "wait"
  /\ timer = "fired"
  /\ tpc[l.by] = "idle"
  /\ \E k \in 1..Len(write_queue) : write_queue[k] = Node(l)

\* C19 (as claimed): a line enqueued by a thread outside the reactor on a
\* running connection, while the reactor is blocked in the readiness wait
\* after the one-shot timer has fired, is eventually passed to the socket
\* write (behaviours in which the process crashes or the connection is quit
\* are left aside).
C19_EnqueuedEventuallyWritten ==
  \A l \in ThreadLines :
    EnqueuedWhileWaiting(l) ~>
      (Sends(l) >= 1 \/ process # "running" \/ ~heap[Conn].live \/ ~running)

\* The last call was a quit_irc_connection that reached gnutls_deinit
\* (irc.c:573) on the connection it found.
QuitReleasedTLS == last.op = "quit" /\ last.why \in {"quit", "deinit", "freed"}

\* A live connection other than c holds a TLS session.
OtherLiveSecure(c) ==
  \E a \in Addr \ {c} : heap[a].live /\ heap[a].tls \in {"session", "failed"}

\* C20 (as claimed): quit releases the TLS session and credentials of a
\* connection only if encrypt_irc_connection created them (the server is
\* secure) and not a second time (the connection it found had not been
\* freed by an earlier quit), and it leaves the library-wide TLS state up
\* while another live connection holds a TLS session.
C20_TLSReleasedOnlyIfCreated ==
  /\ QuitReleasedTLS => secure(last.server)
  /\ QuitReleasedTLS => last.why # "freed"
  /\ (last.op = "quit" /\ OtherLiveSecure(last.conn)) => gnutls_global = "up"

(***************************************************************************)
(* Claims about two connections (checked under SpecPair).                  *)
(***************************************************************************)
\* Connection a has been quit, or its reactor loop has exited.
Gone(a) == ~heap[a].live \/ lpc[a] = "done"

\* Connection b has not been quit and its reactor is inside its loop.
Looping(b) == heap[b].live /\ lpc[b] \in {"test", "wait", "drain"}

\* C15 (as claimed): quitting one connection, or the exit of its reactor
\* loop, leaves the other connection's registry entry, running flag,
\* watcher, timer and event loop intact.
C15_ConnectionsIndependent ==
  \A a, b \in Pair :
    (a # b /\ process = "running" /\ Gone(a) /\ Looping(b)) =>
      /\ \E i \in 0..MAX_CONNECTIONS : conns[i] = b
      /\ ev_is_running[b]
      /\ handles[b].watcher = "active"
      /\ handles[b].timer \in {"armed", "fired"}
      /\ ev_default = "alive"
====
